---- MODULE Spec2Model ----
(***************************************************************************)
(* Model of page-summarizer.py: the Website page object (url setter that   *)
(* fetches and extracts), the LlmSummarizer (lazy client, prompt building, *)
(* summarize) and show_summary.                                            *)
(*                                                                         *)
(* Strings are sequences of tokens; a Python value that may be None is a   *)
(* record [t, v] so that None and str values stay comparable.              *)
(***************************************************************************)
EXTENDS Integers, Sequences, FiniteSets, TLC

\* ---------------------------------------------------------------- bounds
MaxNodes == 3        \* nodes below <body> in a generated document
MaxFetches == 2      \* HTTP GETs in one behaviour
MaxCalls == 2        \* chat-completion requests in one behaviour
MaxChoices == 1      \* choices in one chat-completion response

\* ------------------------------------------------------- python values
None == [t |-> "None", v |-> <<>>]
Str(s) == [t |-> "str", v |-> s]

\* str(x) as an f-string replacement field formats it
Format(x) == IF x.t = "None" THEN <<"None">> ELSE x.v

\* Python truthiness of an Optional[str]
Truthy(x) == x.t = "str" /\ Len(x.v) > 0

RECURSIVE IsPrefix(_, _)
IsPrefix(s, t) ==
  IF Len(s) = 0 THEN TRUE
  ELSE IF Len(t) = 0 THEN FALSE
  ELSE Head(s) = Head(t) /\ IsPrefix(Tail(s), Tail(t))

\* s occurs in t as a contiguous run (Python: s in t)
RECURSIVE IsSubstring(_, _)
IsSubstring(s, t) ==
  IF IsPrefix(s, t) THEN TRUE
  ELSE IF Len(t) = 0 THEN FALSE
  ELSE IsSubstring(s, Tail(t))

\* ------------------------------------------------------ document trees
\* A node of the parsed tree: a string (tag "#text", its text in s) or an
\* element (its tag, its children in kids).
TextNode(s) == [tag |-> "#text", s |-> s, kids |-> <<>>]
Elem(tag, kids) == [tag |-> tag, s |-> "", kids |-> kids]
NoNode == [tag |-> "#none", s |-> "", kids |-> <<>>]
Decomposed == [tag |-> "#decomposed", s |-> "", kids |-> <<>>]

Tokens == {"a", "b"}
VoidTags == {"img", "input"}
ContainerTags == {"div", "script", "style"}
Leaves == {TextNode(s) : s \in Tokens} \cup {Elem(t, <<>>) : t \in VoidTags}

RECURSIVE Trees(_), Forests(_)
\* trees of exactly n nodes
Trees(n) ==
  IF n = 0 THEN {}
  ELSE (IF n = 1 THEN Leaves ELSE {})
       \cup {Elem(t, f) : t \in ContainerTags, f \in Forests(n - 1)}
\* sequences of trees of exactly n nodes in total
Forests(n) ==
  IF n = 0 THEN {<<>>}
  ELSE UNION {{<<t>> \o f : t \in Trees(k), f \in Forests(n - k)} : k \in 1..n}

BodiesUpTo(n) == {Elem("body", f) : f \in UNION {Forests(k) : k \in 0..n}}

\* contents of a <title>: empty, one string, two strings, a nested element,
\* a string followed by an element
TitleContents ==
  { <<>>,
    <<TextNode("a")>>,
    <<TextNode("a"), TextNode("b")>>,
    <<Elem("b", <<TextNode("a")>>)>>,
    <<TextNode("a"), Elem("b", <<TextNode("b")>>)>> }

Heads == {Elem("head", <<>>)} \cup {Elem("head", <<Elem("title", k)>>) : k \in TitleContents}

\* what BeautifulSoup(response.content, "html.parser") can return
DocsUpTo(n) ==
  {Elem("[document]", <<Elem("html", <<h>>)>>) : h \in Heads}
  \cup {Elem("[document]", <<Elem("html", <<h, b>>)>>) : h \in Heads, b \in BodiesUpTo(n)}

Docs == DocsUpTo(MaxNodes)

\* -------------------------------------------------- BeautifulSoup calls
RECURSIVE FindFirst(_, _)
\* first node with the tag among the trees of a forest, in document order
FindFirst(forest, tag) ==
  IF Len(forest) = 0 THEN NoNode
  ELSE IF Head(forest).tag = tag THEN Head(forest)
  ELSE LET below == FindFirst(Head(forest).kids, tag)
       IN IF below # NoNode THEN below ELSE FindFirst(Tail(forest), tag)

\* soup.title, soup.body: tag.find(name), NoNode for Python's None
Find(node, tag) == FindFirst(node.kids, tag)

RECURSIVE String(_)
\* Tag.string: the only child if it is a string, the only child's .string
\* if it is a tag, None when there are no or several children
String(node) ==
  IF Len(node.kids) # 1 THEN None
  ELSE IF node.kids[1].tag = "#text" THEN Str(<<node.kids[1].s>>)
  ELSE String(node.kids[1])

RECURSIVE FindAllFrom(_, _, _, _)
\* paths (child indices from node) of the matching descendants of the
\* children i.. of node, in document order; prefix is the path of node
FindAllFrom(node, tags, prefix, i) ==
  IF i > Len(node.kids) THEN <<>>
  ELSE LET kid == node.kids[i]
           here == Append(prefix, i)
       IN (IF kid.tag \in tags THEN <<here>> ELSE <<>>)
          \o FindAllFrom(kid, tags, here, 1)
          \o FindAllFrom(node, tags, prefix, i + 1)

\* find_all restricted to the children (recursive=False)
FindAllShallow(node, tags) ==
  LET hits == SelectSeq([i \in 1..Len(node.kids) |-> i],
                        LAMBDA i : node.kids[i].tag \in tags)
  IN [j \in 1..Len(hits) |-> <<hits[j]>>]

\* tag(names) == tag.find_all(names): every matching descendant
FindAll(node, tags) == FindAllFrom(node, tags, <<>>, 1)

RECURSIVE Decompose(_, _)
\* element.decompose() for the element at path: it and its descendants are
\* destroyed; the slot is kept so that the other paths stay valid. An
\* element below an already destroyed one is gone already.
Decompose(node, path) ==
  IF Len(path) = 0 THEN Decomposed
  ELSE IF Head(path) > Len(node.kids) THEN node
  ELSE [node EXCEPT !.kids[Head(path)] = Decompose(@, Tail(path))]

RECURSIVE DecomposeAll(_, _)
\* for irrelevant in found: irrelevant.decompose()
DecomposeAll(node, paths) ==
  IF Len(paths) = 0 THEN node
  ELSE DecomposeAll(Decompose(node, Head(paths)), Tail(paths))

RECURSIVE GetText(_), GetTextOf(_)
\* tag.get_text(): the strings below the tag, concatenated in document order
GetTextOf(forest) ==
  IF Len(forest) = 0 THEN <<>> ELSE GetText(Head(forest)) \o GetTextOf(Tail(forest))
GetText(node) ==
  IF node.tag = "#text" THEN <<node.s>> ELSE GetTextOf(node.kids)

NoTitleFound == <<"No title found">>
Irrelevant == {"script", "style", "img", "input"}

\* soup.title.string if soup.title else "No title found"
TitleOf(soup) ==
  IF Find(soup, "title") # NoNode THEN String(Find(soup, "title")) ELSE Str(NoTitleFound)

\* the body after the decompose loop, and its text
CleanBody(soup) == DecomposeAll(Find(soup, "body"), FindAll(Find(soup, "body"), Irrelevant))
TextOf(soup) == GetText(CleanBody(soup))


\* what the url setter reads from a parsed response (lines 59-63): the
\* title expression, whether soup.body exists, the text of the cleaned body
Parse(soup) ==
  [title |-> TitleOf(soup),
   hasBody |-> Find(soup, "body") # NoNode,
   text |-> IF Find(soup, "body") # NoNode THEN TextOf(soup) ELSE <<>>]

\* the documents the web serves in the program's behaviours (every head,
\* no body or a body of at most one node), parsed
Parsed == {Parse(d) : d \in DocsUpTo(1)}
NoPage == [title |-> None, hasBody |-> FALSE, text |-> <<>>]
\* the document an error response carries (never read by the setter)
ErrorPage == [title |-> Str(<<"a">>), hasBody |-> TRUE, text |-> <<"b">>]

\* ------------------------------------------------------------ the web
Urls == {"u1", "u2"}
\* the names under which the caller keeps Website objects
Sites == {"w"}
ErrorStatuses == {404, 500}

\* requests.get(url): a network-level exception, an error status, or a
\* 200 response whose content parses to one of the documents
Responses ==
  {[kind |-> "raise", status |-> 0, page |-> NoPage]}
  \cup {[kind |-> "response", status |-> s, page |-> ErrorPage] : s \in ErrorStatuses}
  \cup {[kind |-> "response", status |-> 200, page |-> p] : p \in Parsed}

\* --------------------------------------------------------- the program
VARIABLES
  sites,            \* the Website objects the caller holds
  nFetch,           \* number of requests.get calls so far
  okFetches,        \* the fetches that returned 200 and were extracted fully
  apiKey,           \* Config.openai_api_key
  openai,           \* LlmSummarizer.__openai
  clientsBuilt,     \* number of OpenAI(...) constructions that succeeded
  system_behavior,  \* LlmSummarizer.__system_behavior
  llmCalls,         \* number of chat.completions.create calls so far
  lastOp,           \* the last call the caller made and how it ended
  soup, page, messages, stage   \* the extraction pipeline on one document

progVars == <<sites, nFetch, okFetches, apiKey, openai, clientsBuilt,
              system_behavior, llmCalls, lastOp>>
pipeVars == <<soup, page, messages, stage>>
vars == <<sites, nFetch, okFetches, apiKey, openai, clientsBuilt,
          system_behavior, llmCalls, lastOp,
          soup, page, messages, stage>>

Unset == [t |-> "unset", v |-> <<>>]

\* a Website object: its three private attributes; the fetch (number of
\* the requests.get call) the title comes from, the url of that fetch, and
\* the fetch the text comes from; the url the constructor was called with
NoSite == [live |-> FALSE, url |-> "", title |-> Unset, text |-> Unset,
           titleFrom |-> 0, titleUrl |-> "", textFrom |-> 0, init_url |-> ""]
NewSite(url) == [NoSite EXCEPT !.live = TRUE, !.init_url = url]

\* url setter that assigns __url only once the page has been extracted
UrlSetterUrlLast(self, url, resp, id) ==
  IF resp.kind = "raise" THEN [obj |-> self, exc |-> "ConnectionError"]
  ELSE IF resp.status # 200 THEN [obj |-> self, exc |-> "ValueError"]
  ELSE LET s2 == [self EXCEPT !.title = resp.page.title, !.titleFrom = id,
                               !.titleUrl = url]
       IN IF ~resp.page.hasBody THEN [obj |-> s2, exc |-> "TypeError"]
          ELSE [obj |-> [s2 EXCEPT !.text = Str(resp.page.text), !.textFrom = id,
                                   !.url = url],
                exc |-> ""]

\* url setter that goes on to the extraction whatever the status code
UrlSetterNoStatusCheck(self, url, resp, id) ==
  LET s1 == [self EXCEPT !.url = url]
  IN IF resp.kind = "raise" THEN [obj |-> s1, exc |-> "ConnectionError"]
     ELSE LET s2 == [s1 EXCEPT !.title = resp.page.title, !.titleFrom = id,
                               !.titleUrl = url]
          IN IF ~resp.page.hasBody THEN [obj |-> s2, exc |-> "TypeError"]
             ELSE [obj |-> [s2 EXCEPT !.text = Str(resp.page.text), !.textFrom = id],
                   exc |-> ""]

\* url setter that takes the text of a missing body to be empty
UrlSetterNoBodyOk(self, url, resp, id) ==
  LET s1 == [self EXCEPT !.url = url]
  IN IF resp.kind = "raise" THEN [obj |-> s1, exc |-> "ConnectionError"]
     ELSE IF resp.status # 200 THEN [obj |-> s1, exc |-> "ValueError"]
     ELSE [obj |-> [s1 EXCEPT !.title = resp.page.title, !.titleFrom = id,
                              !.titleUrl = url,
                              !.text = Str(resp.page.text), !.textFrom = id],
           exc |-> ""]

\* Website.url setter on object self, resp being what requests.get returns
\* and id the number of this fetch: the object afterwards, and the
\* exception leaving the setter ("" when it returns)
UrlSetter(self, url, resp, id) ==
  LET s1 == [self EXCEPT !.url = url]
  IN IF resp.kind = "raise" THEN [obj |-> s1, exc |-> "ConnectionError"]
     ELSE IF resp.status # 200 THEN [obj |-> s1, exc |-> "ValueError"]
     ELSE LET s2 == [s1 EXCEPT !.title = resp.page.title, !.titleFrom = id,
                               !.titleUrl = url]
          IN IF ~resp.page.hasBody THEN [obj |-> s2, exc |-> "TypeError"]
             ELSE [obj |-> [s2 EXCEPT !.text = Str(resp.page.text), !.textFrom = id],
                   exc |-> ""]

\* ------------------------------------------------------- LlmSummarizer
ApiKeys == {None, Str(<<"sk-1">>)}
NoClient == [api_key |-> Unset, id |-> 0]
NoMessage == [role |-> "", content |-> <<>>]

SystemText ==
  <<"You are an assistant that analyzes the contents of a website ",
    "and provides a short summary, ignoring the text that might be navigation-related.",
    "Respond in markdown and be concise.">>

\* the dict system_behavior builds on first use
SystemMessage == [role |-> "system", content |-> SystemText]

\* user_prompt_for(website): the f-string, piece by piece
UserPromptFor(website) ==
  [role |-> "user",
   content |-> <<"You are looking at the website titled \"">> \o Format(website.title)
               \o <<"\"", "The content of this website is as follows; ",
                    "please provide a short summary of this website in markdown.",
                    "If it includes news or announcements, then summarize these too.\n\n",
                    "\"\"\"\n">> \o Format(website.text) \o <<"\n\"\"\"\n\n">>]

\* messages_for(website), sb being what the system_behavior property returns
MessagesFor(sb, website) == <<sb, UserPromptFor(website)>>

MaxTokens == 512
NoRequest == [client |-> NoClient, messages |-> <<>>, model |-> "",
              temperature |-> "", max_tokens |-> 0]

\* what a chat completion can carry as message.content
Contents == {None, Str(<<>>), Str(<<"Summary.">>)}

RECURSIVE SeqsUpTo(_, _)
SeqsUpTo(S, n) ==
  IF n = 0 THEN {<<>>}
  ELSE SeqsUpTo(S, n - 1) \cup {Append(q, x) : q \in {r \in SeqsUpTo(S, n - 1) : Len(r) = n - 1}, x \in S}

\* chat.completions.create: an API error, or a response with its choices
Completions ==
  {[kind |-> "raise", choices |-> <<>>]}
  \cup {[kind |-> "response", choices |-> c] : c \in SeqsUpTo(Contents, MaxChoices)}

NoOutput == [via |-> "", content |-> <<>>]

\* the caller's view of a call: which call, on what, what happened inside
\* (status of the GET, 0 without a response; whether the document had a
\* body; the chat request if one was made; how many choices came back, -1
\* without a completion; what went to the console)
\* and how it ended (exc is the exception that propagated, "" when the
\* call returned ret)
NoOp == [op |-> "", site |-> "", url |-> "", fetched |-> FALSE, status |-> 0,
         hasBody |-> FALSE, asked |-> FALSE, request |-> NoRequest,
         nchoices |-> -1, exc |-> "", ret |-> Unset, arg |-> Unset,
         console |-> NoOutput]

FetchOp(op, i, url, resp, exc) ==
  [NoOp EXCEPT !.op = op, !.site = i, !.url = url, !.fetched = TRUE,
               !.status = resp.status,
               !.hasBody = (resp.kind = "response" /\ resp.page.hasBody),
               !.exc = exc]


\* openai property that builds a client on every access
OpenaiPropertyEager(cur, key, built, ctor) ==
  IF ctor = "raise" THEN [client |-> NoClient, exc |-> "OpenAIError"]
  ELSE [client |-> [api_key |-> key, id |-> built + 1], exc |-> ""]

\* the openai property: the client it returns (built from the configured
\* key when there is none yet; id tells one constructed client from
\* another) or the exception of the OpenAI constructor
OpenaiProperty(cur, key, built, ctor) ==
  IF cur = NoClient
  THEN IF ctor = "raise" THEN [client |-> NoClient, exc |-> "OpenAIError"]
       ELSE [client |-> [api_key |-> key, id |-> built + 1], exc |-> ""]
  ELSE [client |-> cur, exc |-> ""]

\* OpenAI(api_key=None) raises unless the environment supplies a key
CtorOutcomes(key) == IF key = None THEN {"ok", "raise"} ELSE {"ok"}

\* the system_behavior property
SystemBehaviorProperty(cur) == IF cur = NoMessage THEN SystemMessage ELSE cur

\* return response.choices[0].message.content
SummarizeReturn(choices) ==
  IF Len(choices) = 0 THEN [exc |-> "IndexError", ret |-> Unset]
  ELSE [exc |-> "", ret |-> choices[1]]

\* lines 156-163 of summarize on a Website object; op is the call so far
Chat(website, op) ==
  LET sb == SystemBehaviorProperty(system_behavior)
      msgs == MessagesFor(sb, website)
  IN /\ system_behavior' = sb
     /\ \E ctor \in (IF openai = NoClient THEN CtorOutcomes(apiKey) ELSE {"ok"}) :
          LET cl == OpenaiProperty(openai, apiKey, clientsBuilt, ctor)
              req == [client |-> cl.client, messages |-> msgs, model |-> "gpt-4o-mini",
                      temperature |-> "0.2", max_tokens |-> MaxTokens]
          IN /\ openai' = cl.client
             /\ clientsBuilt' = IF cl.client # openai THEN clientsBuilt + 1 ELSE clientsBuilt
             /\ IF cl.exc # ""
                THEN /\ llmCalls' = llmCalls
                     /\ lastOp' = [op EXCEPT !.exc = cl.exc]
                ELSE /\ llmCalls' = llmCalls + 1
                     /\ \E out \in Completions :
                          LET r == SummarizeReturn(out.choices)
                          IN lastOp' =
                               IF out.kind = "raise"
                               THEN [op EXCEPT !.asked = TRUE, !.request = req,
                                               !.exc = "APIError"]
                               ELSE [op EXCEPT !.asked = TRUE, !.request = req,
                                               !.nchoices = Len(out.choices),
                                               !.exc = r.exc, !.ret = r.ret]

\* w = Website(url): the object reaches the caller only if __init__ returns
Construct(i, url, resp) ==
  /\ ~sites[i].live
  /\ nFetch < MaxFetches
  /\ LET r == UrlSetter(NewSite(url), url, resp, nFetch + 1)
     IN /\ sites' = IF r.exc = "" THEN [sites EXCEPT ![i] = r.obj] ELSE sites
        /\ okFetches' = IF r.exc = "" THEN okFetches \cup {nFetch + 1} ELSE okFetches
        /\ lastOp' = FetchOp("Website", i, url, resp, r.exc)
  /\ nFetch' = nFetch + 1
  /\ UNCHANGED <<apiKey, openai, clientsBuilt, system_behavior, llmCalls>>
  /\ UNCHANGED pipeVars

\* w.url = url on an object the caller holds
SetUrl(i, url, resp) ==
  /\ sites[i].live
  /\ nFetch < MaxFetches
  /\ LET r == UrlSetter(sites[i], url, resp, nFetch + 1)
     IN /\ sites' = [sites EXCEPT ![i] = r.obj]
        /\ okFetches' = IF r.exc = "" THEN okFetches \cup {nFetch + 1} ELSE okFetches
        /\ lastOp' = FetchOp("set_url", i, url, resp, r.exc)
  /\ nFetch' = nFetch + 1
  /\ UNCHANGED <<apiKey, openai, clientsBuilt, system_behavior, llmCalls>>
  /\ UNCHANGED pipeVars

\* summarizer.summarize(url) with a str
SummarizeUrl(url, resp) ==
  /\ nFetch < MaxFetches
  /\ llmCalls < MaxCalls
  /\ LET r == UrlSetter(NewSite(url), url, resp, nFetch + 1)
     IN /\ okFetches' = IF r.exc = "" THEN okFetches \cup {nFetch + 1} ELSE okFetches
        /\ IF r.exc # ""
           THEN /\ lastOp' = FetchOp("summarize", "", url, resp, r.exc)
                /\ UNCHANGED <<openai, clientsBuilt, system_behavior, llmCalls>>
           ELSE Chat(r.obj, FetchOp("summarize", "", url, resp, ""))
  /\ nFetch' = nFetch + 1
  /\ UNCHANGED <<sites, apiKey>>
  /\ UNCHANGED pipeVars

\* summarizer.summarize(w) with a Website the caller holds
SummarizeSite(i) ==
  /\ sites[i].live
  /\ llmCalls < MaxCalls
  /\ Chat(sites[i], [NoOp EXCEPT !.op = "summarize", !.site = i, !.url = sites[i].url])
  /\ UNCHANGED <<sites, nFetch, okFetches, apiKey>>
  /\ UNCHANGED pipeVars

\* show_summary that tests summary is not None
ShowSummaryNotNone(summary) ==
  IF summary # None THEN [via |-> "markdown", content |-> summary.v]
  ELSE [via |-> "print", content |-> <<"No summary found.">>]

\* show_summary(summary): what reaches the console and through what
ShowSummaryOut(summary) ==
  IF Truthy(summary) THEN [via |-> "markdown", content |-> summary.v]
  ELSE [via |-> "print", content |-> <<"No summary found.">>]

\* show_summary(summary), the summary being any value summarize can return
ShowSummary(summary) ==
  /\ lastOp' = [NoOp EXCEPT !.op = "show_summary", !.arg = summary, !.ret = None,
                            !.console = ShowSummaryOut(summary)]
  /\ UNCHANGED <<sites, nFetch, okFetches, apiKey, openai, clientsBuilt,
                 system_behavior, llmCalls>>
  /\ UNCHANGED pipeVars

NoResult == [obj |-> NoSite, exc |-> ""]

Init ==
  /\ sites = [i \in Sites |-> NoSite]
  /\ nFetch = 0
  /\ okFetches = {}
  /\ apiKey \in ApiKeys
  /\ openai = NoClient
  /\ clientsBuilt = 0
  /\ system_behavior = NoMessage
  /\ llmCalls = 0
  /\ lastOp = NoOp
  /\ soup = NoNode
  /\ page = NoResult
  /\ messages = <<>>
  /\ stage = "idle"

Next ==
  \/ \E i \in Sites, url \in Urls, resp \in Responses : Construct(i, url, resp)
  \/ \E i \in Sites, url \in Urls, resp \in Responses : SetUrl(i, url, resp)
  \/ \E url \in Urls, resp \in Responses : SummarizeUrl(url, resp)
  \/ \E i \in Sites : SummarizeSite(i)
  \/ \E summary \in Contents : ShowSummary(summary)

Spec == Init /\ [][Next]_vars

\* ------------------------------------------- the extraction pipeline
\* One parsed document taken through the setter's extraction and then
\* through messages_for.
PipeInit ==
  /\ sites = [i \in Sites |-> NoSite]
  /\ nFetch = 0
  /\ okFetches = {}
  /\ apiKey = None
  /\ openai = NoClient
  /\ clientsBuilt = 0
  /\ system_behavior = NoMessage
  /\ llmCalls = 0
  /\ lastOp = NoOp
  /\ soup \in Docs
  /\ page = NoResult
  /\ messages = <<>>
  /\ stage = "parsed"

\* lines 59-63 on the document
Extract ==
  /\ stage = "parsed"
  /\ page' = UrlSetter(NewSite("u1"), "u1",
                       [kind |-> "response", status |-> 200, page |-> Parse(soup)], 1)
  /\ stage' = "extracted"
  /\ UNCHANGED <<soup, messages>>
  /\ UNCHANGED progVars

\* messages_for on the page just extracted
BuildMessages ==
  /\ stage = "extracted"
  /\ page.exc = ""
  /\ messages' = MessagesFor(SystemBehaviorProperty(NoMessage), page.obj)
  /\ stage' = "prompted"
  /\ UNCHANGED <<soup, page>>
  /\ UNCHANGED progVars

PipeNext == Extract \/ BuildMessages

PipeSpec == PipeInit /\ [][PipeNext]_vars


\* ------------------------------------------------------------- claims
\* a summarize(url) call has just ended
SummarizedUrl == lastOp.op = "summarize" /\ lastOp.fetched

\* C1: when the GET of summarize(url) answers with a status other than 200,
\* the call ends with the setter's ValueError reaching the caller, returns
\* no summary and makes no chat-completion request.
C1_NonOkStatusFailsWithoutLlmCall ==
  [][(nFetch' = nFetch + 1 /\ lastOp'.op = "summarize" /\ lastOp'.status \notin {0, 200})
       => /\ lastOp'.exc = "ValueError"
          /\ lastOp'.ret = Unset
          /\ ~lastOp'.asked
          /\ lastOp'.request = NoRequest
          /\ llmCalls' = llmCalls]_vars

C1_Witness ==
  /\ SummarizedUrl
  /\ lastOp.status = 404
  /\ lastOp.exc = "ValueError"
  /\ llmCalls = 0

\* C2: when the fetch succeeds and the completion has zero choices,
\* summarize returns None instead of failing.
C2_ZeroChoicesReturnsNone ==
  (lastOp.op = "summarize" /\ lastOp.nchoices = 0)
    => (lastOp.exc = "" /\ lastOp.ret = None)

\* C3: every Website the caller holds has a title and a text that come
\* from one and the same fetch, that fetch was extracted fully, and the
\* url is the url of that fetch.
C3_PageFullyPopulatedFromOneFetch ==
  \A i \in Sites :
    sites[i].live =>
      /\ sites[i].textFrom = sites[i].titleFrom
      /\ sites[i].titleFrom \in okFetches
      /\ sites[i].url = sites[i].titleUrl

\* C4: the OpenAI client is built at most once: never replaced once it
\* exists, built only in a call that gets as far as the chat-completion
\* step (so not in a call whose fetch fails), built from the configured api
\* key, and every chat-completion request goes through it.
C4_ClientBuiltOnceOnFirstUse ==
  [][/\ openai # NoClient => openai' = openai
     /\ (openai = NoClient /\ openai' # NoClient)
          => /\ lastOp'.op = "summarize"
             /\ lastOp'.asked
             /\ llmCalls' = llmCalls + 1
             /\ openai'.api_key = apiKey
     /\ llmCalls' = llmCalls + 1
          => (openai' # NoClient /\ lastOp'.request.client = openai')
     /\ (nFetch' = nFetch + 1 /\ lastOp'.exc \in {"ConnectionError", "ValueError", "TypeError"})
          => openai' = openai
     /\ clientsBuilt' <= 1]_vars

C4_Witness ==
  /\ llmCalls >= 2
  /\ clientsBuilt = 1
  /\ lastOp.request.client = openai
  /\ openai.api_key = apiKey

\* C5: when a 200 response parses to a document without a body, the call
\* fails with the TypeError of calling soup.body, no Website object comes
\* into the caller's hands, no text is assigned, and no chat-completion
\* request is made.
C5_NoBodyFailsWithoutPage ==
  [][(nFetch' = nFetch + 1 /\ lastOp'.status = 200 /\ ~lastOp'.hasBody)
       => /\ lastOp'.exc = "TypeError"
          /\ lastOp'.ret = Unset
          /\ ~lastOp'.asked
          /\ llmCalls' = llmCalls
          /\ \A i \in Sites :
               /\ sites'[i].live = sites[i].live
               /\ sites'[i].text = sites[i].text
               /\ sites'[i].textFrom = sites[i].textFrom]_vars

C5_Witness ==
  /\ SummarizedUrl
  /\ lastOp.status = 200
  /\ ~lastOp.hasBody
  /\ lastOp.exc = "TypeError"
  /\ llmCalls = 0

\* C6: the extracted title is the text of the document's title element
\* when it has one (empty text, nested markup included), and the literal
\* "No title found" when it has none.
C6_TitleIsTitleText ==
  (stage # "parsed" /\ page.exc = "")
    => page.obj.title =
         IF Find(soup, "title") # NoNode
         THEN Str(GetText(Find(soup, "title")))
         ELSE Str(<<"No title found">>)

RECURSIVE VisibleText(_, _)
\* the strings of the trees i.. of a forest that lie in no script, style,
\* img or input element, in document order
VisibleText(forest, i) ==
  IF i > Len(forest) THEN <<>>
  ELSE (IF forest[i].tag \in {"script", "style", "img", "input"} THEN <<>>
        ELSE IF forest[i].tag = "#text" THEN <<forest[i].s>>
        ELSE VisibleText(forest[i].kids, 1))
       \o VisibleText(forest, i + 1)

\* C7: the extracted text consists of the strings of the body that lie in
\* no script, style, img or input element at any depth: none of the text
\* of those elements, all the text of the other nodes.
C7_TextDropsIrrelevantSubtrees ==
  (stage # "parsed" /\ page.exc = "")
    => page.obj.text = Str(VisibleText(Find(soup, "body").kids, 1))

\* a document whose body keeps some text and loses some
C7_Witness ==
  /\ stage = "extracted"
  /\ page.exc = ""
  /\ page.obj.text.v # <<>>
  /\ page.obj.text.v # GetText(Find(soup, "body"))
  /\ \E i \in 1..Len(Find(soup, "body").kids) :
       /\ Find(soup, "body").kids[i].tag \in Irrelevant
       /\ GetText(Find(soup, "body").kids[i]) # <<>>

\* C8: messages_for returns two messages, system then user; the system
\* content is the fixed text; the user content contains the page's title
\* and the page's text as substrings.
C8_TwoMessagesEmbedPage ==
  stage = "prompted"
    => /\ Len(messages) = 2
       /\ messages[1].role = "system"
       /\ messages[2].role = "user"
       /\ messages[1].content = SystemText
       /\ page.obj.title.t = "str"
       /\ IsSubstring(page.obj.title.v, messages[2].content)
       /\ page.obj.text.t = "str"
       /\ IsSubstring(page.obj.text.v, messages[2].content)

\* C9: show_summary goes through the markdown renderer exactly when the
\* summary is a non-empty string, and then renders that summary; for None
\* and for "" it prints "No summary found." instead; it raises nothing and
\* returns None.
C9_MarkdownIffSummaryPresent ==
  lastOp.op = "show_summary"
    => /\ (lastOp.console.via = "markdown")
            <=> (lastOp.arg.t = "str" /\ lastOp.arg.v # <<>>)
       /\ lastOp.console.via = "markdown" => lastOp.console.content = lastOp.arg.v
       /\ lastOp.console.via # "markdown"
            => lastOp.console = [via |-> "print", content |-> <<"No summary found.">>]
       /\ lastOp.exc = ""
       /\ lastOp.ret = None

C9_Witness ==
  /\ lastOp.op = "show_summary"
  /\ lastOp.arg = Str(<<>>)
  /\ lastOp.console.via = "print"

====
